---- MODULE Spec2Model ----
(***************************************************************************)
(* ThreadManager (src/thread_manager.py) with the simulated work call of   *)
(* src/api_simulator.py: one caller thread that runs submit_all and        *)
(* shutdown, one pool worker per submitted unit running _run_task          *)
(* statement by statement, and an observer that calls get_tasks and        *)
(* is_complete.  APITask objects live in a heap, because get_tasks copies  *)
(* the dict and not the objects it refers to.  The script of src/main.py   *)
(* (submit, poll loop, final snapshot, shutdown, summary) is a further     *)
(* specification over the same manager.                                    *)
(***************************************************************************)
EXTENDS Integers, Sequences, FiniteSets, TLC

VARIABLES
    tasks,      \* self.tasks: api name -> reference (heap index) of its APITask
    heap,       \* the APITask objects ever created, by reference
    lock,       \* self._lock: 0 when free, else the worker that holds it
    executor,   \* self._executor: None, or Some(the pool)
    workers,    \* the work items handed to a pool, in order of submission
    caller,     \* the thread that calls submit_all / shutdown
    clock,      \* what time.time() returns
    poll        \* the observer: its last get_tasks / is_complete results

vars == <<tasks, heap, lock, executor, workers, caller, clock, poll>>

----------------------------------------------------------------------------
(* Bounds of the model.                                                    *)

MaxUnits == 2       \* longest list handed to submit_all
MaxClock == 1       \* time.time() ranges over 0..MaxClock
MaxBatches == 2     \* submit_all calls on one manager (SpecReuse only)
MaxReuseUnits == 1  \* longest list handed to submit_all in SpecReuse

----------------------------------------------------------------------------
(* Optional values: None is the empty tuple, a present value a 1-tuple.    *)

None == <<>>

Some(x) == <<x>>

(* class APIStatus *)
PENDING == "pending"

RUNNING == "running"

SUCCESS == "success"

ERROR == "error"

APIStatus == {PENDING, RUNNING, SUCCESS, ERROR}

(* APIResult(success, data=None, error=None) *)
APIResult(success, data, error) ==
    [success |-> success, data |-> data, error |-> error]

(* APITask(api=api): PENDING, no times, no result *)
APITask(api) ==
    [api |-> api, status |-> PENDING, start_time |-> None,
     end_time |-> None, result |-> None]

----------------------------------------------------------------------------
(* The units.  Durations are whole seconds, failure_rate is in percent.    *)

WeatherAPI ==
    [name |-> "Weather API", min_duration |-> 1, max_duration |-> 2,
     failure_rate |-> 5]

(* A Traffic API unit whose duration range reaches below zero, so that    *)
(* time.sleep may raise.                                                   *)
SkewedTrafficAPI ==
    [name |-> "Traffic API", min_duration |-> -1, max_duration |-> 2,
     failure_rate |-> 20]

ApiInputs == {WeatherAPI, SkewedTrafficAPI}

SatelliteDataAPI ==
    [name |-> "Satellite Data API", min_duration |-> 3, max_duration |-> 5,
     failure_rate |-> 15]

PopulationAPI ==
    [name |-> "Population API", min_duration |-> 2, max_duration |-> 3,
     failure_rate |-> 5]

TrafficAPI ==
    [name |-> "Traffic API", min_duration |-> 1, max_duration |-> 2,
     failure_rate |-> 20]

AirQualityAPI ==
    [name |-> "Air Quality API", min_duration |-> 2, max_duration |-> 4,
     failure_rate |-> 8]

(* The list the application submits. *)
SIMULATED_APIS ==
    <<WeatherAPI, SatelliteDataAPI, PopulationAPI, TrafficAPI, AirQualityAPI>>

QueryName == "My Query"

RECURSIVE SeqsUpTo(_, _)
SeqsUpTo(S, n) ==
    IF n = 0 THEN {<<>>}
    ELSE LET shorter == SeqsUpTo(S, n - 1)
         IN  shorter \cup {Append(s, x) : s \in {t \in shorter : Len(t) = n - 1}, x \in S}

(* The lists submit_all may be called with: empty, distinct, duplicates.   *)
Batches == SeqsUpTo(ApiInputs, MaxUnits)

ReuseBatches == SeqsUpTo(ApiInputs, MaxReuseUnits)

Names(apis) == {apis[i].name : i \in DOMAIN apis}

Distinct(apis) == \A i, j \in DOMAIN apis : apis[i].name = apis[j].name => i = j

----------------------------------------------------------------------------
(* simulate_api_call                                                       *)

error_messages ==
    <<"Connection timeout", "Rate limit exceeded",
      "Service temporarily unavailable", "Invalid response from server",
      "Authentication failed">>

(* random.uniform(a, b) = a + (b - a) * random() *)
Uniform(a, b) == IF a <= b THEN a .. b ELSE b .. a

(* random.random(), in percent: a value of [0, 100) *)
RandomDraws == {0, 10, 50, 99}

(* random.choice(error_messages): any element of the list *)
Choice(msgs) == {msgs[i] : i \in DOMAIN msgs}

(* _generate_mock_data: the base data plus one section chosen by api name *)
GenerateMockData(api_name, query_name) ==
    [query_name |-> query_name,
     section |-> CASE api_name = "Weather API" -> "weather"
                   [] api_name = "Satellite Data API" -> "satellite"
                   [] api_name = "Population API" -> "population"
                   [] api_name = "Traffic API" -> "traffic"
                   [] api_name = "Air Quality API" -> "air_quality"
                   [] OTHER -> "none"]

(* How a call ends: it returns an APIResult or raises exc(msg). *)
Raise(exc, msg) == [kind |-> "raise", exc |-> exc, msg |-> msg, result |-> None]

Return(result) == [kind |-> "return", exc |-> "", msg |-> "", result |-> Some(result)]

(* The ways one call of simulate_api_call(api, query_name, ...) can end:   *)
(* time.sleep raises ValueError on a negative duration; otherwise the call *)
(* returns a failure when random.random() < failure_rate, else mock data.  *)
SimulateApiCall(api, query_name) ==
    LET durations == Uniform(api.min_duration, api.max_duration)
    IN  {Raise("ValueError", "sleep length must be non-negative") :
            d \in {x \in durations : x < 0}}
        \cup
        {Return(APIResult(FALSE, None, Some(m))) :
            m \in {x \in Choice(error_messages) :
                     \E d \in durations, r \in RandomDraws :
                        d >= 0 /\ r < api.failure_rate}}
        \cup
        {Return(APIResult(TRUE, Some(GenerateMockData(api.name, query_name)), None)) :
            d \in {x \in durations :
                     x >= 0 /\ \E r \in RandomDraws : ~(r < api.failure_rate)}}

----------------------------------------------------------------------------
(* The state after ThreadManager(): no tasks, lock free, no executor.      *)

(* The caller thread: its place in submit_all (pc, apis, i), the number n  *)
(* of submit_all calls begun, the exception the last call raised, and what *)
(* the manager looked like when the call began (before, exec0, w0, busy).  *)
IdleCaller ==
    [pc |-> "idle", apis |-> <<>>, i |-> 1, n |-> 0, raised |-> None,
     before |-> <<>>, exec0 |-> None, w0 |-> 0, busy |-> FALSE]

Init ==
    /\ tasks = <<>>
    /\ heap = <<>>
    /\ lock = 0
    /\ executor = None
    /\ workers = <<>>
    /\ caller = IdleCaller
    /\ clock = 0
    /\ poll = [snap |-> <<>>, complete |-> "none"]

(* time.time(): the values a call may return.  The clock never runs       *)
(* backwards; it moves between two calls by any amount up to MaxClock.     *)
TimeTime == clock .. MaxClock

(* all(task.status in (SUCCESS, ERROR) for task in self.tasks.values()) *)
AllTerminal == \A n \in DOMAIN tasks : heap[tasks[n]].status \in {SUCCESS, ERROR}

(* Faulty variant: no empty-map test; all() of nothing is True. *)
IsCompleteNoEmptyTest == AllTerminal

(* is_complete(), evaluated while holding the lock *)
IsComplete == IF DOMAIN tasks = {} THEN FALSE ELSE AllTerminal

----------------------------------------------------------------------------
(* submit_all(apis, ...), run by the caller thread.                        *)

(* {api.name: APITask(api=api) for api in apis}: for a name that occurs    *)
(* more than once the dict keeps the task of the last unit with that name. *)
LastIndex(apis, name) ==
    CHOOSE i \in DOMAIN apis :
        /\ apis[i].name = name
        /\ \A j \in DOMAIN apis : apis[j].name = name => j <= i

(* The names of apis in order of first occurrence (dict insertion order). *)
RECURSIVE KeyOrder(_)
KeyOrder(apis) ==
    IF apis = <<>> THEN <<>>
    ELSE LET front == KeyOrder(SubSeq(apis, 1, Len(apis) - 1))
             last == apis[Len(apis)].name
         IN  IF \E k \in DOMAIN front : front[k] = last THEN front
             ELSE Append(front, last)

NewTasks(apis) ==
    LET keys == KeyOrder(apis)
    IN  [k \in DOMAIN keys |-> APITask(apis[LastIndex(apis, keys[k])])]

(* Faulty variant: the map is filled one unit at a time and becomes       *)
(* visible with its first unit only.                                       *)
SubmitAllInstallFirstOnly(apis) ==
    /\ caller.pc = "idle"
    /\ lock = 0
    /\ heap' = heap \o NewTasks(apis)
    /\ tasks' = [name \in {apis[i].name : i \in DOMAIN apis \cap {1}} |-> Len(heap) + 1]
    /\ caller' = [pc |-> "executor", apis |-> apis, i |-> 1, n |-> caller.n + 1,
                  raised |-> None, before |-> tasks, exec0 |-> executor,
                  w0 |-> Len(workers),
                  busy |-> (DOMAIN tasks # {} /\ ~AllTerminal)]
    /\ UNCHANGED <<lock, executor, workers, clock, poll>>

(* lines 80-81: with self._lock: self.tasks = {...} *)
SubmitAllInstall(apis) ==
    /\ caller.pc = "idle"
    /\ lock = 0
    /\ LET keys == KeyOrder(apis)
           ref(name) == Len(heap) + (CHOOSE k \in DOMAIN keys : keys[k] = name)
       IN  /\ heap' = heap \o NewTasks(apis)
           /\ tasks' = [name \in Names(apis) |-> ref(name)]
    /\ caller' = [pc |-> "executor", apis |-> apis, i |-> 1, n |-> caller.n + 1,
                  raised |-> None, before |-> tasks, exec0 |-> executor,
                  w0 |-> Len(workers),
                  busy |-> (DOMAIN tasks # {} /\ ~AllTerminal)]
    /\ UNCHANGED <<lock, executor, workers, clock, poll>>

(* A pool: id tells the pools of one manager apart, max_workers is the    *)
(* number of threads it may run.                                           *)
ThreadPoolExecutor(id, max_workers) == [id |-> id, max_workers |-> max_workers]

(* Faulty variant: a pool of one thread, whatever the list. *)
MaxWorkersOne(apis) == 1

(* max_workers=len(apis) *)
MaxWorkers(apis) == Len(apis)

(* line 84: self._executor = ThreadPoolExecutor(max_workers=len(apis));    *)
(* the constructor raises ValueError when max_workers <= 0, and the        *)
(* exception leaves submit_all before the assignment.                      *)
SubmitAllExecutor ==
    /\ caller.pc = "executor"
    /\ IF MaxWorkers(caller.apis) <= 0
       THEN /\ caller' = [caller EXCEPT !.pc = "idle",
                             !.raised = Some("max_workers must be greater than 0")]
            /\ UNCHANGED executor
       ELSE /\ executor' = Some(ThreadPoolExecutor(caller.n, MaxWorkers(caller.apis)))
            /\ caller' = [caller EXCEPT !.pc = "submit"]
    /\ UNCHANGED <<tasks, heap, lock, workers, clock, poll>>

(* A work item as the pool receives it: _run_task(api, ...) not yet begun. *)
WorkItem(api, pool) ==
    [api |-> api, pool |-> pool, pc |-> "l104", task |-> 0,
     result |-> None, e |-> None, outcome |-> None]

(* Faulty variant: the item is bound to the loop variable late (a closure   *)
(* over api), so every item runs the last unit of the list.                *)
SubmittedUnitLateBound(apis, i) == apis[Len(apis)]

(* for api in apis: the unit the i-th submit passes to _run_task *)
SubmittedUnit(apis, i) == apis[i]

(* Faulty variant: each unit is handed to the pool twice. *)
SubmitAllSubmitTwice ==
    /\ caller.pc = "submit"
    /\ workers' = workers \o
                     << WorkItem(SubmittedUnit(caller.apis, caller.i), executor[1]),
                        WorkItem(SubmittedUnit(caller.apis, caller.i), executor[1]) >>
    /\ caller' = [caller EXCEPT !.i = caller.i + 1,
                     !.pc = IF caller.i = Len(caller.apis) THEN "idle" ELSE "submit"]
    /\ UNCHANGED <<tasks, heap, lock, executor, clock, poll>>

(* lines 86-93: one self._executor.submit(self._run_task, api, ...) *)
SubmitAllSubmit ==
    /\ caller.pc = "submit"
    /\ workers' = Append(workers, WorkItem(SubmittedUnit(caller.apis, caller.i), executor[1]))
    /\ caller' = [caller EXCEPT !.i = caller.i + 1,
                     !.pc = IF caller.i = Len(caller.apis) THEN "idle" ELSE "submit"]
    /\ UNCHANGED <<tasks, heap, lock, executor, clock, poll>>

(* Faulty variant: shutdown also drops the task map. *)
ShutdownClearsTasks ==
    /\ caller.pc = "idle"
    /\ executor' = None
    /\ tasks' = <<>>
    /\ UNCHANGED <<heap, lock, workers, caller, clock, poll>>

(* Faulty variant: shutdown cancels the work items that have not begun    *)
(* (cancel_futures=True).                                                  *)
ShutdownCancels ==
    /\ caller.pc = "idle"
    /\ executor' = None
    /\ workers' = [w \in DOMAIN workers |->
                     IF workers[w].pc = "l104"
                     THEN [workers[w] EXCEPT !.pc = "cancelled"]
                     ELSE workers[w]]
    /\ UNCHANGED <<tasks, heap, lock, caller, clock, poll>>

(* shutdown(): lines 145-147 *)
Shutdown ==
    /\ caller.pc = "idle"
    /\ executor' = IF executor # None THEN None ELSE executor
    /\ UNCHANGED <<tasks, heap, lock, workers, caller, clock, poll>>

----------------------------------------------------------------------------
(* _run_task(api, ...), run by pool worker w, one statement per step.  The *)
(* pc of a worker names the line it is about to execute.                   *)

(* str(e): KeyError shows the repr of its key, the others their message.   *)
Str(exc, arg) == IF exc = "KeyError" THEN "'" \o arg \o "'" ELSE arg

(* Faulty variant: the except clause names KeyError only. *)
CaughtByExceptKeyError(exc) == exc \in {"KeyError"}

(* except Exception: the classes below are subclasses of Exception.        *)
CaughtByExcept(exc) == exc \in {"ValueError", "KeyError"}

Goto(w, pc) == workers' = [workers EXCEPT ![w].pc = pc]

(* The work items of a pool that one of its threads is running. *)
RunningItems(pool) ==
    {v \in DOMAIN workers :
        workers[v].pool = pool /\ workers[v].pc \notin {"l104", "done", "raised"}}

(* A pool runs at most max_workers work items at a time; the others wait   *)
(* in its queue.                                                           *)
HasIdleThread(pool) == Cardinality(RunningItems(pool)) < pool.max_workers

(* with self._lock: task = self.tasks[api.name], at lines 104-105, 114-115 *)
(* and 122-123: the worker takes the lock and looks its task up.  At line  *)
(* 104 the work item is first taken up by a thread of its pool.  A         *)
(* missing key raises KeyError, which leaves the with block and releases   *)
(* the lock: at line 115 it is inside the try and caught at line 120, at   *)
(* lines 105 and 123 nothing catches it and it ends _run_task.             *)
AcquireAndLookup(w) ==
    LET me == workers[w]
        name == me.api.name
    IN  /\ me.pc \in {"l104", "l114", "l122"}
        /\ me.pc = "l104" => HasIdleThread(me.pool)
        /\ lock = 0
        /\ IF name \in DOMAIN tasks
           THEN /\ lock' = w
                /\ workers' = [workers EXCEPT
                       ![w].task = tasks[name],
                       ![w].pc = CASE me.pc = "l104" -> "l106"
                                   [] me.pc = "l114" -> "l116"
                                   [] me.pc = "l122" -> "l124"]
           ELSE /\ lock' = 0
                /\ IF me.pc = "l114" /\ CaughtByExcept("KeyError")
                   THEN workers' = [workers EXCEPT
                            ![w].e = Some(Str("KeyError", name)),
                            ![w].pc = "l122"]
                   ELSE Goto(w, "raised")
        /\ UNCHANGED <<tasks, heap, executor, caller, clock, poll>>

(* Faulty variant: the worker never records RUNNING. *)
MarkRunningForgotten(w) ==
    /\ workers[w].pc = "l106"
    /\ lock = w
    /\ Goto(w, "l107")
    /\ UNCHANGED <<tasks, heap, lock, executor, caller, clock, poll>>

(* line 106: task.status = APIStatus.RUNNING *)
MarkRunning(w) ==
    /\ workers[w].pc = "l106"
    /\ lock = w
    /\ heap' = [heap EXCEPT ![workers[w].task].status = RUNNING]
    /\ Goto(w, "l107")
    /\ UNCHANGED <<tasks, lock, executor, caller, clock, poll>>

(* Faulty variant: the with block of line 104 reaches over the work call, *)
(* so the lock is still held when line 111 runs.                           *)
SetStartTimeKeepsLock(w) ==
    /\ workers[w].pc = "l107"
    /\ lock = w
    /\ \E t \in TimeTime :
          /\ heap' = [heap EXCEPT ![workers[w].task].start_time = Some(t)]
          /\ clock' = t
    /\ Goto(w, "l111")
    /\ UNCHANGED <<tasks, lock, executor, caller, poll>>

(* line 107: task.start_time = time.time(); the with block ends *)
SetStartTime(w) ==
    /\ workers[w].pc = "l107"
    /\ lock = w
    /\ \E t \in TimeTime :
          /\ heap' = [heap EXCEPT ![workers[w].task].start_time = Some(t)]
          /\ clock' = t
    /\ lock' = 0
    /\ Goto(w, "l111")
    /\ UNCHANGED <<tasks, executor, caller, poll>>

(* line 111: result = simulate_api_call(...) ends, outside the lock.  A    *)
(* returned value is bound to result; a raised exception goes to the       *)
(* except clause of line 120 when that clause catches its class.           *)
CallEnds(w) ==
    /\ workers[w].pc = "l111"
    /\ \E o \in SimulateApiCall(workers[w].api, QueryName) :
          workers' = [workers EXCEPT
              ![w].outcome = Some(o.kind),
              ![w].result = IF o.kind = "return" THEN o.result ELSE None,
              ![w].e = IF o.kind = "raise" /\ CaughtByExcept(o.exc)
                       THEN Some(Str(o.exc, o.msg)) ELSE None,
              ![w].pc = IF o.kind = "return" THEN "l114"
                        ELSE IF CaughtByExcept(o.exc) THEN "l122" ELSE "raised"]
    /\ UNCHANGED <<tasks, heap, lock, executor, caller, clock, poll>>

(* lines 116 and 124: task.end_time = time.time() *)
SetEndTime(w) ==
    /\ workers[w].pc \in {"l116", "l124"}
    /\ lock = w
    /\ \E t \in TimeTime :
          /\ heap' = [heap EXCEPT ![workers[w].task].end_time = Some(t)]
          /\ clock' = t
    /\ Goto(w, IF workers[w].pc = "l116" THEN "l117" ELSE "l125")
    /\ UNCHANGED <<tasks, lock, executor, caller, poll>>

(* line 117: task.result = result *)
SetResult(w) ==
    /\ workers[w].pc = "l117"
    /\ lock = w
    /\ heap' = [heap EXCEPT ![workers[w].task].result = workers[w].result]
    /\ Goto(w, "l118")
    /\ UNCHANGED <<tasks, lock, executor, caller, clock, poll>>

(* line 118: task.status = SUCCESS if result.success else ERROR *)
StatusOf(result) == IF result.success THEN SUCCESS ELSE ERROR

SetStatus(w) ==
    /\ workers[w].pc = "l118"
    /\ lock = w
    /\ heap' = [heap EXCEPT
           ![workers[w].task].status = StatusOf(workers[w].result[1])]
    /\ lock' = 0
    /\ Goto(w, "done")
    /\ UNCHANGED <<tasks, executor, caller, clock, poll>>

(* Faulty variant: the failure result is built without the error message. *)
FaultResultNoMessage(e) == APIResult(FALSE, None, None)

(* line 125: task.result = APIResult(success=False, error=str(e)) *)
FaultResult(e) == APIResult(FALSE, None, e)

SetFaultResult(w) ==
    /\ workers[w].pc = "l125"
    /\ lock = w
    /\ heap' = [heap EXCEPT ![workers[w].task].result = Some(FaultResult(workers[w].e))]
    /\ Goto(w, "l126")
    /\ UNCHANGED <<tasks, lock, executor, caller, clock, poll>>

(* line 126: task.status = APIStatus.ERROR; the with block ends *)
SetFaultStatus(w) ==
    /\ workers[w].pc = "l126"
    /\ lock = w
    /\ heap' = [heap EXCEPT ![workers[w].task].status = ERROR]
    /\ lock' = 0
    /\ Goto(w, "done")
    /\ UNCHANGED <<tasks, executor, caller, clock, poll>>

----------------------------------------------------------------------------
(* The observer.  Both calls hold the lock for their whole body.           *)

(* get_tasks(): dict(self.tasks) copies the dict; the APITask objects are  *)
(* shared with the manager.                                                *)
GetTasks ==
    /\ lock = 0
    /\ poll' = [poll EXCEPT !.snap = tasks]
    /\ UNCHANGED <<tasks, heap, lock, executor, workers, caller, clock>>

(* is_complete(): the observer keeps what it returned *)
IsCompleteCall ==
    /\ lock = 0
    /\ poll' = [poll EXCEPT !.complete = IF IsComplete THEN "true" ELSE "false"]
    /\ UNCHANGED <<tasks, heap, lock, executor, workers, caller, clock>>

(* What a holder of the snapshot reads from it, without the lock. *)
ReadSnapshot(n) == heap[poll.snap[n]]

----------------------------------------------------------------------------
Worker(w) ==
    \/ AcquireAndLookup(w)
    \/ MarkRunning(w)
    \/ SetStartTime(w)
    \/ CallEnds(w)
    \/ SetEndTime(w)
    \/ SetResult(w)
    \/ SetStatus(w)
    \/ SetFaultResult(w)
    \/ SetFaultStatus(w)

Manager ==
    \/ SubmitAllExecutor
    \/ SubmitAllSubmit
    \/ Shutdown
    \/ \E w \in DOMAIN workers : Worker(w)

(* One manager, one submit_all call, an observer polling is_complete. *)
Next ==
    \/ \E apis \in Batches : caller.n = 0 /\ SubmitAllInstall(apis)
    \/ Manager
    \/ IsCompleteCall

Spec == Init /\ [][Next]_vars

(* The same, with an observer that also takes snapshots with get_tasks. *)
NextSnapshot ==
    \/ Next
    \/ GetTasks

SpecSnapshot == Init /\ [][NextSnapshot]_vars

(* One manager and one submit_all call, nobody else: the caller inside     *)
(* submit_all and the pool workers.                                        *)
NextCore ==
    \/ \E apis \in Batches : caller.n = 0 /\ SubmitAllInstall(apis)
    \/ SubmitAllExecutor
    \/ SubmitAllSubmit
    \/ \E w \in DOMAIN workers : Worker(w)

SpecCore == Init /\ [][NextCore]_vars

(* The same, with an observer polling is_complete. *)
NextObserved ==
    \/ NextCore
    \/ IsCompleteCall

SpecObserved == Init /\ [][NextObserved]_vars

(* The same as NextCore, with a caller that may call shutdown(). *)
NextShutdown ==
    \/ NextCore
    \/ Shutdown

SpecShutdown == Init /\ [][NextShutdown]_vars

(* One manager, up to MaxBatches submit_all calls, each at any time the    *)
(* caller is not inside submit_all: also while a batch is in flight.       *)
NextReuse ==
    \/ \E apis \in ReuseBatches : caller.n < MaxBatches /\ SubmitAllInstall(apis)
    \/ Manager
    \/ IsCompleteCall

SpecReuse == Init /\ [][NextReuse]_vars

(* Reuse as the manager asks for it: a further submit_all only after      *)
(* is_complete() has returned true and shutdown() has been called.         *)
Resubmit(apis) ==
    /\ caller.n >= 1
    /\ caller.n < MaxBatches
    /\ poll.complete = "true"
    /\ executor = None
    /\ SubmitAllInstall(apis)

NextResubmit ==
    \/ Next
    \/ \E apis \in ReuseBatches : Resubmit(apis)

SpecResubmit == Init /\ [][NextResubmit]_vars

----------------------------------------------------------------------------
(* The application (src/main.py): one script thread that makes a manager,  *)
(* submits SIMULATED_APIS, polls until is_complete(), takes the final      *)
(* snapshot, calls shutdown() and counts.  poll.pc is the line the script  *)
(* is at once submit_all has returned.                                     *)

(* apis=SIMULATED_APIS: the script submits the whole list. *)
AppApis == SIMULATED_APIS

InitApp ==
    /\ tasks = <<>>
    /\ heap = <<>>
    /\ lock = 0
    /\ executor = None
    /\ workers = <<>>
    /\ caller = IdleCaller
    /\ clock = 0
    /\ poll = [snap |-> <<>>, complete |-> "none", pc |-> "l146",
               success_count |-> 0, error_count |-> 0]

(* lines 124-130: ThreadManager() and submit_all(apis=SIMULATED_APIS, ...) *)
AppSubmit ==
    /\ caller.n = 0
    /\ SubmitAllInstall(AppApis)

(* submit_all has returned and the script has been rerun (line 131). *)
AppPolling ==
    /\ caller.n = 1
    /\ caller.pc = "idle"
    /\ caller.raised = None

(* Faulty variant: the loop ends as soon as some task has a final status. *)
AppWhileTestAny ==
    /\ AppPolling
    /\ poll.pc = "l146"
    /\ lock = 0
    /\ LET some == \E n \in DOMAIN tasks : heap[tasks[n]].status \in {SUCCESS, ERROR}
       IN  poll' = [poll EXCEPT !.complete = IF some THEN "true" ELSE "false",
                                !.pc = IF some THEN "l158" ELSE "l147"]
    /\ UNCHANGED <<tasks, heap, lock, executor, workers, caller, clock>>

(* line 146: while not manager.is_complete() *)
AppWhileTest ==
    /\ AppPolling
    /\ poll.pc = "l146"
    /\ lock = 0
    /\ poll' = [poll EXCEPT !.complete = IF IsComplete THEN "true" ELSE "false",
                            !.pc = IF IsComplete THEN "l158" ELSE "l147"]
    /\ UNCHANGED <<tasks, heap, lock, executor, workers, caller, clock>>

(* lines 147-155: tasks = manager.get_tasks(), render, sleep *)
AppLoopGetTasks ==
    /\ poll.pc = "l147"
    /\ lock = 0
    /\ poll' = [poll EXCEPT !.snap = tasks, !.pc = "l146"]
    /\ UNCHANGED <<tasks, heap, lock, executor, workers, caller, clock>>

(* line 158: tasks = manager.get_tasks() after the loop *)
AppFinalGetTasks ==
    /\ poll.pc = "l158"
    /\ lock = 0
    /\ poll' = [poll EXCEPT !.snap = tasks, !.pc = "l166"]
    /\ UNCHANGED <<tasks, heap, lock, executor, workers, caller, clock>>

(* line 166: manager.shutdown() *)
AppShutdown ==
    /\ poll.pc = "l166"
    /\ executor # None
    /\ Shutdown

(* sum(1 for t in tasks.values() if t.status == status) *)
CountStatus(status) ==
    Cardinality({n \in DOMAIN poll.snap : ReadSnapshot(n).status = status})

(* lines 172-179: success_count and error_count, read from the snapshot *)
AppSummary ==
    /\ poll.pc = "l166"
    /\ executor = None
    /\ poll' = [poll EXCEPT !.success_count = CountStatus(SUCCESS),
                            !.error_count = CountStatus(ERROR),
                            !.pc = "l181"]
    /\ UNCHANGED <<tasks, heap, lock, executor, workers, caller, clock>>

(* The script and the pool workers of its one submit_all call.  Each work  *)
(* call draws its own outcome and each time.time() its own value.          *)
NextApp ==
    \/ AppSubmit
    \/ SubmitAllExecutor
    \/ SubmitAllSubmit
    \/ \E w \in DOMAIN workers : Worker(w)
    \/ AppWhileTest
    \/ AppLoopGetTasks
    \/ AppFinalGetTasks
    \/ AppShutdown
    \/ AppSummary

SpecApp == InitApp /\ [][NextApp]_vars

(* Fair scheduling: the caller goes on inside submit_all, every pool      *)
(* worker keeps being scheduled (which includes that its work call ends),  *)
(* and the poll loop of main.py keeps calling is_complete().  No fairness  *)
(* is asked of submit_all being called or of shutdown.                     *)
Fairness ==
    /\ WF_vars(SubmitAllExecutor)
    /\ WF_vars(SubmitAllSubmit)
    /\ WF_vars(IsCompleteCall)
    /\ \A w \in 1 .. MaxUnits : WF_vars(w \in DOMAIN workers /\ Worker(w))

(* The lists with distinct names. *)
DistinctBatches == {apis \in Batches : Distinct(apis)}

(* One manager, one submit_all call with a list of distinct names, and an  *)
(* observer that calls is_complete and get_tasks.                          *)
NextDistinct ==
    \/ \E apis \in DistinctBatches : caller.n = 0 /\ SubmitAllInstall(apis)
    \/ Manager
    \/ IsCompleteCall
    \/ GetTasks

SpecDistinct == Init /\ [][NextDistinct]_vars

SpecFair == Init /\ [][NextDistinct]_vars /\ Fairness

(* The polling part of the script (lines 138-179: loop, final snapshot,    *)
(* shutdown, summary) over a manager whose one submit_all call was given   *)
(* any list of distinct names of at most MaxUnits units, as the list of    *)
(* the script has distinct names.  The list of the script itself has five  *)
(* units and is SpecApp.                                                   *)
NextPolling ==
    \/ \E apis \in DistinctBatches : caller.n = 0 /\ SubmitAllInstall(apis)
    \/ SubmitAllExecutor
    \/ SubmitAllSubmit
    \/ \E w \in DOMAIN workers : Worker(w)
    \/ AppWhileTest
    \/ AppLoopGetTasks
    \/ AppFinalGetTasks
    \/ AppShutdown
    \/ AppSummary

SpecPolling == InitApp /\ [][NextPolling]_vars

----------------------------------------------------------------------------
(* Properties.                                                             *)

Terminal == {SUCCESS, ERROR}

(* The order of the lifecycle: pending, then running, then a final status. *)
Rank(status) ==
    CASE status = PENDING -> 0
      [] status = RUNNING -> 1
      [] OTHER -> 2

(* One move of a task's status that the lifecycle allows. *)
LegalMove(a, b) ==
    \/ a = b
    \/ a = PENDING /\ b = RUNNING
    \/ a = RUNNING /\ b \in Terminal

(* The task of the i-th unit of the list submit_all was called with. *)
TaskOfUnit(i) == tasks[caller.apis[i].name]

(* C1: for one batch with distinct names, every change of a task's status  *)
(* is pending -> running or running -> success/error, under every          *)
(* interleaving, so a later observation under the lock is never behind an  *)
(* earlier one; nor does is_complete() return false after true.            *)
C1_StatusMonotonic ==
    [][Distinct(caller'.apis) =>
        /\ \A o \in DOMAIN heap :
              /\ LegalMove(heap[o].status, heap'[o].status)
              /\ Rank(heap'[o].status) >= Rank(heap[o].status)
        /\ poll.complete = "true" => poll'.complete = "true"]_vars

(* C1 witness: two distinct units; one has moved from pending through      *)
(* running to a final status, the other is still pending.                  *)
C1_Witness ==
    /\ Len(caller.apis) = 2
    /\ Distinct(caller.apis)
    /\ \E n \in DOMAIN tasks :
          /\ heap[tasks[n]].status \in Terminal
          /\ heap[tasks[n]].start_time # None
    /\ \E n \in DOMAIN tasks : heap[tasks[n]].status = PENDING

(* start_time is set iff the task left pending; end_time and result are    *)
(* set iff the task has a final status.                                    *)
FieldPresence(task) ==
    /\ (task.start_time # None) <=> (task.status # PENDING)
    /\ (task.end_time # None) <=> (task.status \in Terminal)
    /\ (task.result # None) <=> (task.status \in Terminal)

(* C2: in every state in which no worker holds the lock, every task of the *)
(* map satisfies the field-presence rule.                                  *)
C2_FieldPresence ==
    lock = 0 => \A n \in DOMAIN tasks : FieldPresence(heap[tasks[n]])

(* C3: is_complete() returns true iff the map is non-empty and no task is  *)
(* pending or running at that instant; it is false on a manager without    *)
(* tasks and false as long as no worker has been started.                  *)
C3_IsCompleteExact ==
    [][IsCompleteCall =>
        /\ (poll'.complete = "true") <=>
              /\ Cardinality(DOMAIN tasks) > 0
              /\ ~ \E n \in DOMAIN tasks : heap[tasks[n]].status \in {PENDING, RUNNING}
        /\ poll'.complete \in {"true", "false"}
        /\ caller.n = 0 => poll'.complete = "false"
        /\ workers = <<>> => poll'.complete = "false"]_vars

(* C3 witness: is_complete() has returned true for a batch of two distinct *)
(* units.                                                                  *)
C3_Witness ==
    /\ poll.complete = "true"
    /\ Len(caller.apis) = 2
    /\ Distinct(caller.apis)
    /\ \A n \in DOMAIN tasks : heap[tasks[n]].status \in Terminal

(* The work call of worker w ended by raising. *)
Raised(w) == workers[w].outcome = Some("raise")

(* C4: a fault raised by the work call never leaves _run_task: the worker  *)
(* goes on to the except clause, and when it finishes its task has status  *)
(* error and a result with success false.                                  *)
C4_FaultBecomesFailure ==
    [][\A w \in DOMAIN workers' :
          workers'[w].outcome = Some("raise") =>
             /\ workers'[w].pc \in {"l122", "l124", "l125", "l126", "done"}
             /\ (w \in DOMAIN workers /\ workers[w].pc # "done" /\ workers'[w].pc = "done") =>
                   /\ heap'[workers'[w].task].status = ERROR
                   /\ heap'[workers'[w].task].result # None
                   /\ heap'[workers'[w].task].result[1].success = FALSE
                   /\ heap'[workers'[w].task].end_time # None]_vars

(* C4 witness: a worker whose work call raised has finished, and its task  *)
(* shows error with a failure result.                                      *)
C4_Witness ==
    \E w \in DOMAIN workers :
        /\ Raised(w)
        /\ workers[w].pc = "done"
        /\ heap[workers[w].task].status = ERROR
        /\ heap[workers[w].task].result[1].success = FALSE

(* C5: in a batch with distinct names a step of the worker of unit k       *)
(* changes no task but the one of unit k, and once the worker of unit i    *)
(* has finished, the task of unit i is success iff the work call of unit i *)
(* returned a result with success true.                                    *)
C5_Isolation ==
    /\ [][Distinct(caller.apis) =>
            \A w \in DOMAIN workers :
                workers'[w] # workers[w] =>
                    \A o \in DOMAIN heap : o # TaskOfUnit(w) => heap'[o] = heap[o]]_vars
    /\ [](Distinct(caller.apis) =>
            \A w \in DOMAIN workers :
                workers[w].pc = "done" =>
                    /\ heap[TaskOfUnit(w)].status \in Terminal
                    /\ (heap[TaskOfUnit(w)].status = SUCCESS) <=>
                          /\ workers[w].outcome = Some("return")
                          /\ workers[w].result[1].success)

(* C5 witness: two distinct units have finished, one after a fault, the    *)
(* other with success.                                                     *)
C5_Witness ==
    /\ Len(caller.apis) = 2
    /\ Distinct(caller.apis)
    /\ Len(workers) = 2
    /\ \E w, v \in DOMAIN workers :
          /\ workers[w].pc = "done" /\ Raised(w)
          /\ heap[TaskOfUnit(w)].status = ERROR
          /\ workers[v].pc = "done"
          /\ heap[TaskOfUnit(v)].status = SUCCESS

(* A failure result that carries a non-empty error message. *)
HasMessage(result) ==
    /\ result # None
    /\ result[1].success = FALSE
    /\ result[1].error # None
    /\ result[1].error[1] # ""

(* C6: when the work call raised, the failure result the worker records    *)
(* carries a non-empty error message: right after line 125 wrote it, and   *)
(* in a batch with distinct names for as long as the batch lives.          *)
C6_FaultMessage ==
    \A w \in DOMAIN workers :
        /\ (Raised(w) /\ workers[w].pc = "l126") => HasMessage(heap[workers[w].task].result)
        /\ (Raised(w) /\ workers[w].pc = "done" /\ Distinct(caller.apis)) =>
              HasMessage(heap[workers[w].task].result)

(* C6 witness: a fault was recorded with the message of the ValueError     *)
(* that time.sleep raised.                                                 *)
C6_Witness ==
    \E w \in DOMAIN workers :
        /\ Raised(w)
        /\ workers[w].pc = "done"
        /\ heap[workers[w].task].result = Some(APIResult(FALSE, None, Some("sleep length must be non-negative")))

(* C7: what a caller reads from the value get_tasks() returned (status,    *)
(* start_time, end_time, result of each task) stays what it was when       *)
(* get_tasks() held the lock, whatever the workers do afterwards, and      *)
(* never breaks the field-presence rule.                                   *)
C7_SnapshotImmutable ==
    [][poll'.snap = poll.snap =>
          \A n \in DOMAIN poll.snap :
              /\ ReadSnapshot(n)' = ReadSnapshot(n)
              /\ FieldPresence(ReadSnapshot(n)) => FieldPresence(ReadSnapshot(n)')]_vars

(* C8: a list in which two units share a name is rejected: the task map is *)
(* not replaced, no worker is launched and submit_all raises.              *)
C8_DuplicateRejected ==
    ~Distinct(caller.apis) =>
        /\ tasks = caller.before
        /\ Len(workers) = caller.w0
        /\ caller.pc = "idle" => caller.raised # None

(* C9: submit_all on a manager whose batch is unfinished is rejected: the  *)
(* map of the batch in flight stays, no worker is launched and submit_all  *)
(* raises.                                                                 *)
C9_OverlapRejected ==
    caller.busy =>
        /\ tasks = caller.before
        /\ Len(workers) = caller.w0
        /\ caller.pc = "idle" => caller.raised # None

(* C10: submit_all with an empty list, on a manager with no batch in       *)
(* flight, raises, launches no worker and leaves the task map as it was    *)
(* before the call.                                                        *)
C10_EmptyRejected ==
    (caller.n > 0 /\ caller.apis = <<>> /\ ~caller.busy) =>
        /\ tasks = caller.before
        /\ Len(workers) = caller.w0
        /\ caller.pc = "idle" => caller.raised # None

(* A step in which shutdown() drops the executor. *)
ShutdownStep == Shutdown \/ (executor # None /\ executor' = None)

(* C11: shutdown() can be called whenever the caller is not inside         *)
(* submit_all, before or after the workers finished and any number of      *)
(* times; it never raises, it changes neither the task map nor any field   *)
(* of a task nor any work item, it leaves no executor behind, and a call   *)
(* on a manager without executor changes nothing at all.                   *)
C11_ShutdownIdempotent ==
    /\ [][ShutdownStep =>
            /\ tasks' = tasks
            /\ heap' = heap
            /\ workers' = workers
            /\ lock' = lock
            /\ executor' = None
            /\ executor = None => vars' = vars]_vars
    /\ [](caller.pc = "idle" => ENABLED Shutdown)

(* C11 witness: shutdown() was called after submit_all of two units        *)
(* returned and before the workers finished: no executor is left, one      *)
(* worker is inside its work call and the other has recorded its result.   *)
C11_Witness ==
    /\ executor = None
    /\ caller.pc = "idle"
    /\ Len(workers) = 2
    /\ \E w, v \in DOMAIN workers :
          /\ workers[w].pc = "l111"
          /\ workers[v].pc = "done"
          /\ heap[workers[v].task].status \in Terminal

(* Worker w has entered the work call of line 111 (it may have left it). *)
Invoked(w) ==
    \/ workers[w].pc \in {"l111", "l114", "l116", "l117", "l118",
                          "l122", "l124", "l125", "l126", "done"}
    \/ workers[w].outcome # None

(* The work calls begun so far for the unit named name. *)
CallsOf(name) == {w \in DOMAIN workers : workers[w].api.name = name /\ Invoked(w)}

(* C12: in a batch with distinct names the work call is entered at most    *)
(* once for every unit, and exactly once for every unit when all tasks of  *)
(* the batch have a final status.                                          *)
C12_CalledExactlyOnce ==
    Distinct(caller.apis) =>
        \A i \in DOMAIN caller.apis :
            /\ Cardinality(CallsOf(caller.apis[i].name)) <= 1
            /\ IsComplete => Cardinality(CallsOf(caller.apis[i].name)) = 1

(* C12 witness: a batch of two distinct units has run to completion, each  *)
(* unit with one finished work call.                                       *)
C12_Witness ==
    /\ Len(caller.apis) = 2
    /\ Distinct(caller.apis)
    /\ IsComplete
    /\ \A i \in DOMAIN caller.apis :
          \E w \in CallsOf(caller.apis[i].name) : workers[w].pc = "done"

(* submit_all was called with a list of distinct names and has returned. *)
Submitted ==
    /\ caller.n > 0
    /\ caller.pc = "idle"
    /\ caller.raised = None
    /\ Distinct(caller.apis)

(* C13: under fair scheduling, after submit_all of a list with distinct    *)
(* names has returned, every task eventually has a final status and        *)
(* is_complete() eventually returns true, whether or not shutdown() is     *)
(* called in between.                                                      *)
C13_EventuallyComplete ==
    Submitted ~> (AllTerminal /\ poll.complete = "true")

(* C13 witness: shutdown() was called after submit_all of two distinct     *)
(* units returned, before either worker had begun.                         *)
C13_Witness ==
    /\ Submitted
    /\ executor = None
    /\ Len(workers) = 2
    /\ \A w \in DOMAIN workers : workers[w].pc = "l104"
    /\ \A n \in DOMAIN tasks : heap[tasks[n]].status = PENDING

(* C14: as long as the work call of a worker has not ended, the task of    *)
(* its unit is running and is_complete() is false for the batch, whatever  *)
(* the other workers do.                                                   *)
C14_HungStaysRunning ==
    \A w \in DOMAIN workers :
        workers[w].pc = "l111" =>
            /\ heap[tasks[workers[w].api.name]].status = RUNNING
            /\ ~IsComplete

(* The lines of _run_task inside a with self._lock block, after the lock  *)
(* was taken.                                                              *)
LockedLines == {"l106", "l107", "l116", "l117", "l118", "l124", "l125", "l126"}

(* C15: a worker inside the work call of line 111 does not hold the lock;  *)
(* the lock is held only by a worker at one of the field updates, so       *)
(* while every started worker is inside its work call the lock is free     *)
(* for the other workers and for the poller.                               *)
C15_NoLockAcrossCall ==
    /\ \A w \in DOMAIN workers : workers[w].pc = "l111" => lock # w
    /\ lock # 0 => (lock \in DOMAIN workers /\ workers[lock].pc \in LockedLines)
    /\ (\A w \in DOMAIN workers : workers[w].pc \notin LockedLines) => lock = 0

(* C15 witness: one worker is inside its work call while another worker    *)
(* holds the lock.                                                         *)
C15_Witness ==
    \E w, v \in DOMAIN workers :
        /\ w # v
        /\ workers[w].pc = "l111"
        /\ lock = v
        /\ workers[v].pc \in LockedLines

(* A task as submit_all creates it: pending, no times, no result. *)
Fresh(task) ==
    /\ task.status = PENDING
    /\ task.start_time = None
    /\ task.end_time = None
    /\ task.result = None

(* C16: for a submit_all of units with distinct names, the key set of      *)
(* every get_tasks() result, taken during or after the call, is the key    *)
(* set of the previous map or the set of all names of the list, never a    *)
(* part of it; and in the map as line 81 installs it every name of the     *)
(* list has a task that is pending with no times and no result.            *)
C16_AtomicInstall ==
    Distinct(caller.apis) =>
        /\ DOMAIN poll.snap \in {DOMAIN caller.before, Names(caller.apis)}
        /\ DOMAIN tasks \in {DOMAIN caller.before, Names(caller.apis)}
        /\ caller.pc = "executor" =>
              /\ DOMAIN tasks = Names(caller.apis)
              /\ \A n \in DOMAIN tasks : Fresh(heap[tasks[n]])

(* C16 witness: get_tasks() ran while submit_all of two distinct units was *)
(* still submitting, and returned both names, both tasks pending.          *)
C16_Witness ==
    /\ Len(caller.apis) = 2
    /\ Distinct(caller.apis)
    /\ caller.pc = "submit"
    /\ caller.i = 1
    /\ DOMAIN poll.snap = Names(caller.apis)
    /\ \A n \in DOMAIN poll.snap : Fresh(ReadSnapshot(n))

(* C17: the pool submit_all creates has one thread per unit of the list,   *)
(* so a work item that has not begun never waits for a thread: whenever    *)
(* the lock is free it can take its step from pending to running, however  *)
(* many work calls of other units are in progress.                         *)
C17_NoQueuing ==
    /\ (executor # None /\ executor[1].id = caller.n) =>
            executor[1].max_workers = Len(caller.apis)
    /\ \A w \in DOMAIN workers :
          (workers[w].pc = "l104" /\ lock = 0) => ENABLED AcquireAndLookup(w)

(* C17 witness: both units of a batch of two distinct units are inside    *)
(* their work calls at the same time, both tasks running.                  *)
C17_Witness ==
    /\ Len(caller.apis) = 2
    /\ Distinct(caller.apis)
    /\ Len(workers) = 2
    /\ executor # None
    /\ \A w \in DOMAIN workers :
          /\ workers[w].pc = "l111"
          /\ heap[workers[w].task].status = RUNNING

(* The work items of the submit_all call in progress or last made. *)
NewWorkers == {w \in DOMAIN workers : workers[w].pool.id = caller.n}

(* The work items of earlier submit_all calls. *)
OldWorkers == {w \in DOMAIN workers : workers[w].pool.id < caller.n}

(* C18: a submit_all made after is_complete() returned true and            *)
(* shutdown() was called starts afresh: the map has exactly the names of   *)
(* the new list, every task is pending when the map is installed,          *)
(* is_complete() is true only when the new workers have finished, and no   *)
(* step of a worker of an earlier batch changes a task of the new map.     *)
C18_ReuseIsFresh ==
    /\ [](caller.n > 1 =>
            /\ DOMAIN tasks = Names(caller.apis)
            /\ caller.pc = "executor" => \A n \in DOMAIN tasks : Fresh(heap[tasks[n]])
            /\ IsComplete =>
                  /\ Cardinality(NewWorkers) = Len(caller.apis)
                  /\ \A w \in NewWorkers : workers[w].pc = "done")
    /\ [][caller.n > 1 =>
            \A w \in OldWorkers :
                workers'[w] # workers[w] =>
                    \A n \in DOMAIN tasks : heap'[tasks[n]] = heap[tasks[n]]]_vars

(* C19: in the application shutdown() is called only after is_complete()  *)
(* has returned true; the snapshot taken after the loop shows every task   *)
(* with a final status, also when the summary reads it after shutdown();   *)
(* and success_count + error_count is the number of submitted units.       *)
C19_FinalSnapshotComplete ==
    /\ [][(executor # None /\ executor' = None) => poll.complete = "true"]_vars
    /\ [](poll.pc \in {"l166", "l181"} =>
            /\ DOMAIN poll.snap = Names(caller.apis)
            /\ \A n \in DOMAIN poll.snap : ReadSnapshot(n).status \in Terminal)
    /\ [](poll.pc = "l181" =>
            poll.success_count + poll.error_count = Len(caller.apis))

(* C19 witness: the script has counted after shutdown(): two units were   *)
(* submitted, one succeeded and one failed.                                *)
C19_Witness ==
    /\ poll.pc = "l181"
    /\ executor = None
    /\ Len(caller.apis) = 2
    /\ Len(workers) = 2
    /\ poll.success_count = 1
    /\ poll.error_count = 1

(* C20: once is_complete() has returned true, and as long as submit_all is *)
(* not called again, every later is_complete() returns true and every      *)
(* task of the map keeps its final status, end_time and result, whether    *)
(* or not shutdown() is called.                                            *)
C20_CompletionStable ==
    [][(poll.complete = "true" /\ caller'.n = caller.n) =>
          /\ poll'.complete = "true"
          /\ tasks' = tasks
          /\ \A n \in DOMAIN tasks :
                /\ heap[tasks[n]].status \in Terminal
                /\ heap'[tasks[n]].status = heap[tasks[n]].status
                /\ heap'[tasks[n]].end_time = heap[tasks[n]].end_time
                /\ heap'[tasks[n]].result = heap[tasks[n]].result]_vars

====
